---- MODULE Spec2Model ----
(***************************************************************************)
(* A model of qb.py: the rule table and graph resolver (match, expand,     *)
(* qubits_, qubits), the jobspace ledger (FileJobSpace.punch_clock,        *)
(* punch_count), Job.status, and the execution loop run by make and seed.  *)
(***************************************************************************)
EXTENDS Integers, Sequences, FiniteSets, TLC

(***************************************************************************)
(* Bounds of the model.                                                    *)
(***************************************************************************)
\* conf['stalled'] (100 in the source), scaled down
Stalled == 2
\* Python's recursion limit, counted in nested Job.status calls, scaled down
RecLimit == 4
\* the longest TARGETS list given to the resolver
MaxReq == 2

\* the direction written by punch_clock: '%d' % True, '%d' % False
In == 1
Out == 0

Names == {"a", "b", "c"}
Default == "default"
AllNames == Names \cup {Default}
Workers == {"W1", "W2"}
\* a worker of an earlier run of the same job, no longer running
W0 == "W0"

None == "None"
NoError == "none"

VARIABLES
    rules,     \* the rule table: a sequence of (pattern, deps, do)
    request,   \* the TARGETS of the command line
    out,       \* the result of qubits(TARGETS) (cli_qubits)
    manifest,  \* the QUBITS_FILE read by seed
    cmd,       \* per worker: "make", "seed" or "off" (no such process)
    given,     \* per worker: the TARGETS of its command line
    ledger,    \* the job's punches, all worker files merged in timestamp order
    pc,        \* per worker: where it is in make / seed / loop
    exc,       \* per worker: the exception that ended it
    qs,        \* loop: qubits = list(qubits)
    targets,   \* loop: targets
    idle,      \* loop: idle
    busy,      \* loop: busy
    k,         \* loop: position of `for qubit in qubits'
    stack,     \* the nested Job.status calls: <<target, next dep>>
    io,        \* loop: (i, o) returned by job.status
    seen,      \* Len(ledger) when (i, o) was counted
    overdue,   \* whether some worker ever ended a pass with idle > stalled
    cyc0,      \* Len(ledger) when the current pass of the while loop began
    quiet0,    \* whether no worker was inside a recipe at that moment
    nodes,     \* conf['nodes']: (address, max-concurrency) pairs
    orders,    \* spawn: the orders handed to pssh, one per group of slots
    cache,     \* S3JobSpace: per host, the job directory under its local path
    remote,    \* S3JobSpace: the job's files under the s3:// url
    pulled,    \* per host: what the url held when the host last ran sync
    clockfile, \* a worker file as text: its lines, each split at the tabs
    tally      \* what punch_count made of clockfile

vars == <<rules, request, out, manifest, cmd, given, ledger, pc, exc, qs,
          targets, idle, busy, k, stack, io, seen, overdue, cyc0,
          quiet0, nodes, orders, cache, remote, pulled, clockfile, tally>>

(***************************************************************************)
(* Sequences.                                                              *)
(***************************************************************************)
Range(s) == {s[n] : n \in DOMAIN s}

InSeq(x, s) == \E n \in DOMAIN s : s[n] = x

Min(x, y) == IF x < y THEN x ELSE y

RECURSIVE Concat(_)
Concat(ss) == IF ss = <<>> THEN <<>> ELSE Head(ss) \o Concat(Tail(ss))

\* every order in which the keys of a dict can be iterated
Orders(S) == {f \in [1..Cardinality(S) -> S] : \A x \in S : \E n \in DOMAIN f : f[n] = x}

(***************************************************************************)
(* Rule table and resolver.                                                *)
(***************************************************************************)
\* a pattern is the set of names its regular expression matches
Rule(pattern, deps) == [pattern |-> pattern, deps |-> deps]

expand(deps) ==
    IF deps.kind = "none" THEN <<>>
    ELSE IF deps.kind = "str" THEN <<deps.val>>
    ELSE deps.val

RECURSIVE matchFrom(_, _, _)
matchFrom(target, rs, n) ==
    IF n > Len(rs) THEN [ok |-> FALSE, deps |-> <<>>, do |-> 0]
    ELSE IF target \in rs[n].pattern
         THEN [ok |-> TRUE, deps |-> expand(rs[n].deps), do |-> n]
         ELSE matchFrom(target, rs, n + 1)

match(target, rs) == matchFrom(target, rs, 1)

\* qubits[target] = deps, do
Put(q, target, val) ==
    [x \in DOMAIN q \cup {target} |-> IF x = target THEN val ELSE q[x]]

\* the entry is left in the dict
Del_kept(q, target) == q

\* del qubits[target]
Del(q, target) == [x \in DOMAIN q \ {target} |-> q[x]]

EmptyDict == [x \in {} |-> <<>>]

\* st: the dict being built, the exception raised (if any), whether warn() ran,
\* the targets `del qubits[target]' took out, and the targets resolved as a
\* dependency of a target that was in the dict at that moment
RECURSIVE qubits_(_, _, _, _)
RECURSIVE forDeps(_, _, _, _, _, _)
qubits_(target, st, ancestors, rs) ==
    LET priors == Append(ancestors, target)
        m == match(target, rs)
    IN  IF ~m.ok THEN [st EXCEPT !.err = "ValueError"]
        ELSE forDeps(target, m.deps, 1,
                     [st EXCEPT !.q = Put(st.q, target, [deps |-> m.deps, do |-> m.do])],
                     priors, rs)

\* the dependencies are not resolved
forDeps_shallow(target, deps, n, st, priors, rs) == st

forDeps(target, deps, n, st, priors, rs) ==
    IF st.err # NoError \/ n > Len(deps) THEN st
    ELSE IF InSeq(deps[n], priors)
         THEN IF target \in DOMAIN st.q
              THEN forDeps(target, deps, n + 1,
                           [st EXCEPT !.q = Del(st.q, target), !.warned = TRUE,
                                      !.dropped = @ \cup {target}],
                           priors, rs)
              ELSE [st EXCEPT !.err = "KeyError", !.warned = TRUE]
         ELSE forDeps(target, deps, n + 1,
                      qubits_(deps[n],
                              [st EXCEPT !.grown = IF target \in DOMAIN st.q
                                                   THEN @ \cup {deps[n]} ELSE @],
                              priors, rs),
                      priors, rs)

\* qubits() has not been called
Pending ==
    [err |-> "pending", list |-> <<>>, warned |-> FALSE, dropped |-> {}, grown |-> {}]

NewDict ==
    [q |-> EmptyDict, err |-> NoError, warned |-> FALSE, dropped |-> {}, grown |-> {}]

\* targets or ('default',)
OrDefault(ts) == IF ts = <<>> THEN <<Default>> ELSE ts

\* the dicts returned by qubits_(t) for the requested targets, in order
Dicts(ts, rs) == [n \in DOMAIN OrDefault(ts) |-> qubits_(OrDefault(ts)[n], NewDict, <<>>, rs)]

Qubit(t, val) == [target |-> t, deps |-> val.deps, do |-> val.do]

\* dict.items() in the iteration order `order'
Items(q, order) == [n \in DOMAIN order |-> Qubit(order[n], q[order[n]])]

\* the lists qubits(targets) can return: one iteration order per dict
RECURSIVE ItemLists(_)
ItemLists(ds) ==
    IF ds = <<>> THEN {<<>>}
    ELSE {Items(Head(ds).q, o) \o rest :
            o \in Orders(DOMAIN Head(ds).q), rest \in ItemLists(Tail(ds))}

qubits(ts, rs) ==
    LET ds == Dicts(ts, rs)
        bad == {n \in DOMAIN ds : ds[n].err # NoError}
        warned == \E n \in DOMAIN ds : ds[n].warned /\ \A j \in bad : n <= j
        dropped == UNION {ds[n].dropped : n \in DOMAIN ds}
        grown == UNION {ds[n].grown : n \in DOMAIN ds}
    IN  IF bad # {}
        THEN {[err |-> ds[CHOOSE n \in bad : \A j \in bad : n <= j].err,
               list |-> <<>>, warned |-> warned, dropped |-> {}, grown |-> {}]}
        ELSE {[err |-> NoError, list |-> l, warned |-> warned, dropped |-> dropped,
               grown |-> grown] : l \in ItemLists(ds)}

qbtarget(qubit) == qubit.target

qbdeps(qubit) == qubit.deps

\* dict(qubits): the last entry of a target wins
dict(list) ==
    [t \in {qbtarget(list[n]) : n \in DOMAIN list} |->
        LET last == CHOOSE n \in DOMAIN list :
                        /\ qbtarget(list[n]) = t
                        /\ \A j \in DOMAIN list : qbtarget(list[j]) = t => j <= n
        IN  list[last]]

(***************************************************************************)
(* Manifest (QUBITS_FILE).                                                 *)
(***************************************************************************)
\* one line of the manifest: do.__name__, target, ' '.join(deps)
qbformat(qubit) == [name |-> qubit.do, target |-> qubit.target, deps |-> qubit.deps]

qbdumps(list) == [n \in DOMAIN list |-> qbformat(list[n])]

\* the recipe is re-bound by matching the target against the local rules
qbparse(line, rs) ==
    LET m == match(line.target, rs)
    IN  [ok |-> m.ok, qubit |-> [target |-> line.target, deps |-> line.deps, do |-> m.do]]

qbread(lines, rs) == [n \in DOMAIN lines |-> qbparse(lines[n], rs)]

(***************************************************************************)
(* Jobspace ledger (FileJobSpace).                                         *)
(***************************************************************************)
Punch(worker, target, inout) == [worker |-> worker, target |-> target, inout |-> inout]

\* every worker writes one shared file
punch_clock_shared(led, worker, qubit, inout) ==
    Append(led, Punch(W0, qbtarget(qubit), inout))

\* '1' is written whatever inout is
punch_clock_in(led, worker, qubit, inout) ==
    Append(led, Punch(worker, qbtarget(qubit), In))

\* the worker file opened with 'w': what it held is lost
punch_clock_truncating(led, worker, qubit, inout) ==
    Append(SelectSeq(led, LAMBDA p : p.worker # worker),
           Punch(worker, qbtarget(qubit), inout))

\* open(<worker file>, 'a').write(...)
punch_clock(led, worker, qubit, inout) ==
    Append(led, Punch(worker, qbtarget(qubit), inout))

\* (i, o) over every worker file of the job
punch_count(led, qubit) ==
    <<Cardinality({n \in DOMAIN led :
                     led[n].target = qbtarget(qubit) /\ led[n].inout = In}),
      Cardinality({n \in DOMAIN led :
                     led[n].target = qbtarget(qubit) /\ led[n].inout # In})>>

InCount(led, t) == Cardinality({n \in DOMAIN led : led[n].target = t /\ led[n].inout = In})

OutCount(led, t) == Cardinality({n \in DOMAIN led : led[n].target = t /\ led[n].inout # In})

\* FileJobSpace.subspace: mkdir -p keeps what is there
subspace(led) == led

\* FileJobSpace.sync: pass
sync(led) == led

\* the file of one worker
File(led, w) == SelectSeq(led, LAMBDA p : p.worker = w)

(***************************************************************************)
(* Job.status, one punch_count at a time.  stack holds the nested calls:   *)
(* the last frame is about to count its target, every other frame is       *)
(* inside all() at dependency number j.                                    *)
(***************************************************************************)
Frame(qubit, j) == [qubit |-> qubit, j |-> j]

Top(st) == st[Len(st)]

Pop(st) == SubSeq(st, 1, Len(st) - 1)

\* the dependencies are not looked at
Descend_blind(st, qbdict) ==
    [res |-> IF Len(st) = 1 THEN "ready" ELSE "waiting", stack |-> <<>>]

\* the frame on top goes on with its dependency number j
Descend(st, qbdict) ==
    LET f == Top(st)
        deps == qbdeps(f.qubit)
    IN  IF f.j > Len(deps)
        THEN [res |-> IF Len(st) = 1 THEN "ready" ELSE "waiting", stack |-> <<>>]
        ELSE IF deps[f.j] \notin DOMAIN qbdict
             THEN [res |-> "KeyError", stack |-> <<>>]
             ELSE IF Len(st) + 1 > RecLimit
                  THEN [res |-> "RuntimeError", stack |-> <<>>]
                  ELSE [res |-> "more", stack |-> Append(st, Frame(qbdict[deps[f.j]], 0))]

\* `if i:' in place of `if o:'
status_started(st, qbdict, cnt) ==
    IF cnt[1] # 0
    THEN IF Len(st) = 1
         THEN [res |-> "up-to-date", stack |-> <<>>]
         ELSE LET up == Pop(st)
                  parent == Top(up)
              IN  Descend([up EXCEPT ![Len(up)] = Frame(parent.qubit, parent.j + 1)], qbdict)
    ELSE Descend([st EXCEPT ![Len(st)] = Frame(Top(st).qubit, 1)], qbdict)

\* the `if o:' test left out
status_unchecked(st, qbdict, cnt) ==
    Descend([st EXCEPT ![Len(st)] = Frame(Top(st).qubit, 1)], qbdict)

\* the frame on top has counted cnt = (i, o): what status does next
status(st, qbdict, cnt) ==
    IF cnt[2] # 0
    THEN IF Len(st) = 1
         THEN [res |-> "up-to-date", stack |-> <<>>]
         ELSE LET up == Pop(st)
                  parent == Top(up)
              IN  Descend([up EXCEPT ![Len(up)] = Frame(parent.qubit, parent.j + 1)], qbdict)
    ELSE Descend([st EXCEPT ![Len(st)] = Frame(Top(st).qubit, 1)], qbdict)

(***************************************************************************)
(* Rule tables and runs the model starts from.                             *)
(***************************************************************************)
\* the deps argument of rule(): None, a string, or a tuple
DepsExpr(seq) ==
    IF Len(seq) = 0 THEN [kind |-> "none", val |-> None]
    ELSE IF Len(seq) = 1 THEN [kind |-> "str", val |-> seq[1]]
    ELSE [kind |-> "seq", val |-> seq]

\* ^a$ -> [], ^b$ -> [a], ^c$ -> [b]
ChainRules == <<Rule({"a"}, DepsExpr(<<>>)), Rule({"b"}, DepsExpr(<<"a">>)),
                Rule({"c"}, DepsExpr(<<"b">>))>>

\* ^a$ -> [b], ^b$ -> [a]
CycleRules == <<Rule({"a"}, DepsExpr(<<"b">>)), Rule({"b"}, DepsExpr(<<"a">>))>>

\* ^a$ -> [b], ^b$ -> [a, b]: b has two dependencies among its ancestors
TwiceRules == <<Rule({"a"}, DepsExpr(<<"b">>)), Rule({"b"}, DepsExpr(<<"a", "b">>))>>

\* ^a$ -> [], ^[bc]$ -> [a]
ForkRules == <<Rule({"a"}, DepsExpr(<<>>)), Rule({"b", "c"}, DepsExpr(<<"a">>))>>

\* ^[ab]$ -> []
RootRules == <<Rule({"a", "b"}, DepsExpr(<<>>))>>

Off == [w \in Workers |-> "off"]

NoTargets == [w \in Workers |-> <<>>]

\* past: the targets an earlier worker W0 of the job ran, in order, before it
\* finished or was killed
Run(rs, req, cmds, giv, past) ==
    [rules |-> rs, request |-> req, cmd |-> cmds, given |-> giv, past |-> past]

Runs ==
    { Run(ChainRules, <<"c">>, [Off EXCEPT !["W1"] = "make"], NoTargets, <<"a", "b", "c">>),
      Run(ChainRules, <<"b">>, [w \in Workers |-> "make"], NoTargets, <<"a">>),
      Run(ChainRules, <<"a">>, [w \in Workers |-> "make"], NoTargets, <<"a">>),
      Run(CycleRules, <<"a">>, [Off EXCEPT !["W1"] = "make"], NoTargets, <<>>),
      Run(CycleRules, <<"a", "b">>, [Off EXCEPT !["W1"] = "make"], NoTargets, <<>>),
      Run(TwiceRules, <<"a">>, [Off EXCEPT !["W1"] = "make"], NoTargets, <<>>),
      Run(ForkRules, <<"b", "c">>, [Off EXCEPT !["W1"] = "make"], NoTargets, <<"a", "b">>),
      Run(RootRules, <<"a", "b">>, [w \in Workers |-> "seed"],
          [NoTargets EXCEPT !["W1"] = <<"a">>, !["W2"] = <<"b">>], <<"a">>) }

\* the worker file W0 left behind: in and out of each target it ran
RECURSIVE PastPunches(_)
PastPunches(past) ==
    IF past = <<>> THEN <<>>
    ELSE <<Punch(W0, Head(past), In), Punch(W0, Head(past), Out)>> \o PastPunches(Tail(past))

Prefixes(s) == {SubSeq(s, 1, n) : n \in 0..Len(s)}

\* conf['nodes'] as the source sets it: [('localhost', 2)]
DefaultNodes == <<[addr |-> "localhost", nmax |-> 2]>>

\* the hosts of an s3:// jobspace, one worker on each, named as its host
Hosts == {"A", "B"}

NoCache == [h \in Hosts |-> <<>>]

NoFiles == [w \in Hosts |-> <<>>]

\* punch_count has not been called
NotCounted == [err |-> "pending", i |-> 0, o |-> 0]

\* spawn() has not been called
NotSpawned == [err |-> "pending", sent |-> <<>>]

(***************************************************************************)
(* make, seed and loop.                                                    *)
(***************************************************************************)
Active == {w \in Workers : cmd[w] # "off"}

\* bookkeeping of the pass a worker is in, kept until its next pass begins
Track(w) ==
    IF pc[w] = "loop" /\ pc'[w] = "status"
    THEN /\ cyc0' = [cyc0 EXCEPT ![w] = Len(ledger)]
         /\ quiet0' = [quiet0 EXCEPT ![w] = \A v \in Workers : pc[v] # "recipe"]
    ELSE IF pc'[w] \in {"done", "raised"}
         THEN /\ cyc0' = [cyc0 EXCEPT ![w] = 0]
              /\ quiet0' = [quiet0 EXCEPT ![w] = FALSE]
         ELSE UNCHANGED <<cyc0, quiet0>>

InitLoop ==
    /\ \E run \in Runs :
        /\ rules = run.rules
        /\ request = run.request
        /\ cmd = run.cmd
        /\ given = run.given
        /\ ledger \in Prefixes(PastPunches(run.past))
        \* pack: file.write(qbdumps(qubits(targets)))
        /\ \E r \in qubits(run.request, run.rules) :
              manifest = IF \E w \in Workers : run.cmd[w] = "seed"
                         THEN qbdumps(r.list) ELSE <<>>
        /\ pc = [w \in Workers |-> IF run.cmd[w] = "off" THEN "off" ELSE "enter"]
    /\ out = Pending
    /\ nodes = DefaultNodes
    /\ orders = NotSpawned
    /\ cache = NoCache
    /\ remote = NoFiles
    /\ pulled = NoCache
    /\ clockfile = <<>>
    /\ tally = NotCounted
    /\ exc = [w \in Workers |-> NoError]
    /\ qs = [w \in Workers |-> <<>>]
    /\ targets = [w \in Workers |-> {}]
    /\ idle = [w \in Workers |-> 0]
    /\ busy = [w \in Workers |-> FALSE]
    /\ k = [w \in Workers |-> 0]
    /\ stack = [w \in Workers |-> <<>>]
    /\ io = [w \in Workers |-> <<0, 0>>]
    /\ seen = [w \in Workers |-> 0]
    /\ overdue = FALSE
    /\ cyc0 = [w \in Workers |-> 0]
    /\ quiet0 = [w \in Workers |-> FALSE]

\* an exception leaves make / seed
Raise(w, e) ==
    /\ pc' = [pc EXCEPT ![w] = "raised"]
    /\ exc' = [exc EXCEPT ![w] = e]
    /\ stack' = [stack EXCEPT ![w] = <<>>]

\* loop, lines 266-271
Begin(w, list) ==
    /\ qs' = [qs EXCEPT ![w] = list]
    /\ targets' = [targets EXCEPT ![w] = {qbtarget(list[n]) : n \in DOMAIN list}]
    /\ idle' = [idle EXCEPT ![w] = 0]
    /\ pc' = [pc EXCEPT ![w] = "loop"]
    /\ UNCHANGED <<exc, stack>>

\* make: with Job(...) as job: loop(qubits(targets, rules), job)
make(w) ==
    /\ pc[w] = "enter"
    /\ cmd[w] = "make"
    /\ \E r \in qubits(request, rules) :
          IF r.err # NoError
          THEN Raise(w, r.err) /\ UNCHANGED <<qs, targets, idle>>
          ELSE Begin(w, r.list)
    /\ ledger' = subspace(ledger)
    /\ UNCHANGED <<clockfile, tally, cache, remote, pulled, nodes, orders, rules, request, out, manifest, cmd, given, busy, k, io, seen,
                   overdue>>
    /\ Track(w)

\* seed: the given targets, then every other target of the manifest
seed(w) ==
    /\ pc[w] = "enter"
    /\ cmd[w] = "seed"
    /\ LET lines == qbread(manifest, rules)
       IN  IF \E n \in DOMAIN lines : ~lines[n].ok
           THEN Raise(w, "ValueError") /\ UNCHANGED <<qs, targets, idle>>
           ELSE LET qd == dict([n \in DOMAIN lines |-> lines[n].qubit])
                IN  IF \E n \in DOMAIN given[w] : given[w][n] \notin DOMAIN qd
                    THEN Raise(w, "KeyError") /\ UNCHANGED <<qs, targets, idle>>
                    ELSE \E rest \in Orders(DOMAIN qd \ Range(given[w])) :
                            Begin(w, [n \in DOMAIN (given[w] \o rest) |->
                                         qd[(given[w] \o rest)[n]]])
    /\ ledger' = subspace(ledger)
    /\ UNCHANGED <<clockfile, tally, cache, remote, pulled, nodes, orders, rules, request, out, manifest, cmd, given, busy, k, io, seen,
                   overdue>>
    /\ Track(w)

\* the next qubit of the for loop whose target is still in targets, or 0
NextIndex(list, from, ts) ==
    LET c == {n \in DOMAIN list : n > from /\ qbtarget(list[n]) \in ts}
    IN  IF c = {} THEN 0 ELSE CHOOSE n \in c : \A j \in c : n <= j

\* idle counts on without bound; the loop only tests idle and idle > stalled
NextIdle(x, b) == IF b THEN 0 ELSE Min(x + 1, Stalled + 2)

\* the for loop goes on after the current qubit, with targets ts and busy b;
\* when no qubit is left: idle = 0 if busy else idle + 1, and back to while
Advance(w, ts, b) ==
    LET n == NextIndex(qs[w], k[w], ts)
    IN  /\ targets' = [targets EXCEPT ![w] = ts]
        /\ busy' = [busy EXCEPT ![w] = b]
        /\ k' = [k EXCEPT ![w] = n]
        /\ stack' = [stack EXCEPT ![w] = IF n = 0 THEN <<>> ELSE <<Frame(qs[w][n], 0)>>]
        /\ pc' = [pc EXCEPT ![w] = IF n = 0 THEN "loop" ELSE "status"]
        /\ idle' = [idle EXCEPT ![w] = IF n = 0 THEN NextIdle(idle[w], b) ELSE idle[w]]
        /\ overdue' = (overdue \/ (n = 0 /\ NextIdle(idle[w], b) > Stalled))
        /\ io' = [io EXCEPT ![w] = <<0, 0>>]
        /\ seen' = [seen EXCEPT ![w] = 0]

\* while targets: false
LoopExit(w) ==
    /\ pc[w] = "loop"
    /\ targets[w] = {}
    /\ pc' = [pc EXCEPT ![w] = "done"]
    /\ UNCHANGED <<clockfile, tally, cache, remote, pulled, nodes, orders, rules, request, out, manifest, cmd, given, ledger, exc, qs,
                   targets, idle, busy, k, stack, io, seen, overdue>>
    /\ Track(w)

\* while targets: true; busy = False; sleep; job.sync(); the for loop begins
LoopPass(w) ==
    /\ pc[w] = "loop"
    /\ targets[w] # {}
    /\ busy' = [busy EXCEPT ![w] = FALSE]
    /\ LET n == NextIndex(qs[w], 0, targets[w])
       IN  /\ k' = [k EXCEPT ![w] = n]
           /\ stack' = [stack EXCEPT ![w] = <<Frame(qs[w][n], 0)>>]
    /\ pc' = [pc EXCEPT ![w] = "status"]
    /\ ledger' = sync(ledger)
    /\ UNCHANGED <<clockfile, tally, cache, remote, pulled, nodes, orders, rules, request, out, manifest, cmd, given, exc, qs, targets,
                   idle, io, seen, overdue>>
    /\ Track(w)

\* what the frame on top of the stack counts, and what follows from it
Counted(w) == punch_count(ledger, Top(stack[w]).qubit)

Outcome(w) == status(stack[w], dict(qs[w]), Counted(w))

\* the (i, o) of the qubit of the for loop is that of the outermost call
Observe(w) ==
    IF Len(stack[w]) = 1
    THEN /\ io' = [io EXCEPT ![w] = Counted(w)]
         /\ seen' = [seen EXCEPT ![w] = Len(ledger)]
    ELSE UNCHANGED <<io, seen>>

Observed(w) == IF Len(stack[w]) = 1 THEN Counted(w) ELSE io[w]

\* job.status counts a target and goes on to count a dependency
StatusMore(w) ==
    /\ pc[w] = "status"
    /\ Outcome(w).res = "more"
    /\ stack' = [stack EXCEPT ![w] = Outcome(w).stack]
    /\ Observe(w)
    /\ UNCHANGED <<clockfile, tally, cache, remote, pulled, nodes, orders, rules, request, out, manifest, cmd, given, ledger, pc, exc, qs,
                   targets, idle, busy, k, overdue>>
    /\ Track(w)

\* stat == 'up-to-date': targets.remove(target)
StatusUpToDate(w) ==
    /\ pc[w] = "status"
    /\ Outcome(w).res = "up-to-date"
    /\ Advance(w, targets[w] \ {qbtarget(qs[w][k[w]])}, busy[w])
    /\ UNCHANGED <<clockfile, tally, cache, remote, pulled, nodes, orders, rules, request, out, manifest, cmd, given, ledger, exc, qs>>
    /\ Track(w)

\* stat == 'waiting': pass
StatusWaiting(w) ==
    /\ pc[w] = "status"
    /\ Outcome(w).res = "waiting"
    /\ Advance(w, targets[w], busy[w])
    /\ UNCHANGED <<clockfile, tally, cache, remote, pulled, nodes, orders, rules, request, out, manifest, cmd, given, ledger, exc, qs>>
    /\ Track(w)

\* a ready target is always executed
Claims_always(i, idl) == TRUE

\* idle >= stalled in place of idle > stalled
Claims_early(i, idl) == i = 0 \/ idl >= Stalled

\* the test i == 0 left out
Claims_late(i, idl) == idl > Stalled

\* the test of line 286
Claims(i, idl) == i = 0 \/ idl > Stalled

\* stat == 'ready' and not (i == 0 or idle > stalled)
StatusSkip(w) ==
    /\ pc[w] = "status"
    /\ Outcome(w).res = "ready"
    /\ ~Claims(Observed(w)[1], idle[w])
    /\ Advance(w, targets[w], busy[w])
    /\ UNCHANGED <<clockfile, tally, cache, remote, pulled, nodes, orders, rules, request, out, manifest, cmd, given, ledger, exc, qs>>
    /\ Track(w)

\* stat == 'ready' and (i == 0 or idle > stalled): about to punch in
StatusClaim(w) ==
    /\ pc[w] = "status"
    /\ Outcome(w).res = "ready"
    /\ Claims(Observed(w)[1], idle[w])
    /\ pc' = [pc EXCEPT ![w] = "punch"]
    /\ stack' = [stack EXCEPT ![w] = <<>>]
    /\ Observe(w)
    /\ UNCHANGED <<clockfile, tally, cache, remote, pulled, nodes, orders, rules, request, out, manifest, cmd, given, ledger, exc, qs,
                   targets, idle, busy, k, overdue>>
    /\ Track(w)

\* qbdict[d] of a missing dependency, or status calling itself without end
StatusRaise(w) ==
    /\ pc[w] = "status"
    /\ Outcome(w).res \in {"KeyError", "RuntimeError"}
    /\ Raise(w, Outcome(w).res)
    /\ UNCHANGED <<clockfile, tally, cache, remote, pulled, nodes, orders, rules, request, out, manifest, cmd, given, ledger, qs, targets,
                   idle, busy, k, io, seen, overdue>>
    /\ Track(w)

\* job.punch_clock(qubit, True)
PunchIn(w) ==
    /\ pc[w] = "punch"
    /\ ledger' = punch_clock(ledger, w, qs[w][k[w]], In)
    /\ pc' = [pc EXCEPT ![w] = "recipe"]
    /\ UNCHANGED <<clockfile, tally, cache, remote, pulled, nodes, orders, rules, request, out, manifest, cmd, given, exc, qs, targets,
                   idle, busy, k, stack, io, seen, overdue>>
    /\ Track(w)

\* qbcall(qubit) returns; job.punch_clock(qubit, False); busy = True
RecipeReturn(w) ==
    /\ pc[w] = "recipe"
    /\ ledger' = punch_clock(ledger, w, qs[w][k[w]], Out)
    /\ Advance(w, targets[w], TRUE)
    /\ UNCHANGED <<clockfile, tally, cache, remote, pulled, nodes, orders, rules, request, out, manifest, cmd, given, exc, qs>>
    /\ Track(w)

\* qbcall(qubit) raises: nothing in loop, make or seed catches it
RecipeRaise(w) ==
    /\ pc[w] = "recipe"
    /\ Raise(w, "RecipeError")
    /\ UNCHANGED <<clockfile, tally, cache, remote, pulled, nodes, orders, rules, request, out, manifest, cmd, given, ledger, qs, targets,
                   idle, busy, k, io, seen, overdue>>
    /\ Track(w)

Step(w) ==
    \/ make(w)
    \/ seed(w)
    \/ LoopExit(w)
    \/ LoopPass(w)
    \/ StatusMore(w)
    \/ StatusUpToDate(w)
    \/ StatusWaiting(w)
    \/ StatusSkip(w)
    \/ StatusClaim(w)
    \/ StatusRaise(w)
    \/ PunchIn(w)
    \/ RecipeReturn(w)
    \/ RecipeRaise(w)

Next ==
    \/ \E w \in Workers : make(w)
    \/ \E w \in Workers : seed(w)
    \/ \E w \in Workers : LoopExit(w)
    \/ \E w \in Workers : LoopPass(w)
    \/ \E w \in Workers : StatusMore(w)
    \/ \E w \in Workers : StatusUpToDate(w)
    \/ \E w \in Workers : StatusWaiting(w)
    \/ \E w \in Workers : StatusSkip(w)
    \/ \E w \in Workers : StatusClaim(w)
    \/ \E w \in Workers : StatusRaise(w)
    \/ \E w \in Workers : PunchIn(w)
    \/ \E w \in Workers : RecipeReturn(w)
    \/ \E w \in Workers : RecipeRaise(w)

Spec == InitLoop /\ [][Next]_vars

(***************************************************************************)
(* The resolver on its own: qb qubits TARGETS and qb pack TARGETS over     *)
(* every small rule table.                                                 *)
(***************************************************************************)
NoRule == <<"-">>

NameOrder == <<"a", "b", "c">>

DepOptions ==
    {<<>>} \cup {<<x>> : x \in Names}
           \cup {<<x, y>> : x \in Names, y \in Names}

\* one rule ^n$ per name that has one, then ^default$ -> [c]
RECURSIVE TableFrom(_, _)
TableFrom(f, n) ==
    IF n > Len(NameOrder) THEN <<Rule({Default}, DepsExpr(<<"c">>))>>
    ELSE (IF f[NameOrder[n]] = NoRule THEN <<>>
          ELSE <<Rule({NameOrder[n]}, DepsExpr(f[NameOrder[n]]))>>)
         \o TableFrom(f, n + 1)

RuleTables == {TableFrom(f, 1) : f \in [Names -> DepOptions \cup {NoRule}]}

Requests == UNION {[1..n -> Names] : n \in 0..MaxReq}

InitQubits ==
    /\ rules \in RuleTables
    /\ request \in Requests
    /\ out = Pending
    /\ nodes = DefaultNodes
    /\ orders = NotSpawned
    /\ cache = NoCache
    /\ remote = NoFiles
    /\ pulled = NoCache
    /\ clockfile = <<>>
    /\ tally = NotCounted
    /\ manifest = <<>>
    /\ cmd = Off
    /\ given = NoTargets
    /\ ledger = <<>>
    /\ pc = [w \in Workers |-> "off"]
    /\ exc = [w \in Workers |-> NoError]
    /\ qs = [w \in Workers |-> <<>>]
    /\ targets = [w \in Workers |-> {}]
    /\ idle = [w \in Workers |-> 0]
    /\ busy = [w \in Workers |-> FALSE]
    /\ k = [w \in Workers |-> 0]
    /\ stack = [w \in Workers |-> <<>>]
    /\ io = [w \in Workers |-> <<0, 0>>]
    /\ seen = [w \in Workers |-> 0]
    /\ overdue = FALSE
    /\ cyc0 = [w \in Workers |-> 0]
    /\ quiet0 = [w \in Workers |-> FALSE]

\* qb qubits TARGETS
cli_qubits ==
    /\ out = Pending
    /\ out' \in qubits(request, rules)
    /\ UNCHANGED <<clockfile, tally, cache, remote, pulled, nodes, orders, rules, request, manifest, cmd, given, ledger, pc, exc, qs,
                   targets, idle, busy, k, stack, io, seen, overdue, cyc0, quiet0>>

\* qb pack TARGETS: file.write(qbdumps(qubits(targets)))
pack ==
    /\ out # Pending
    /\ out.err = NoError
    /\ manifest = <<>>
    /\ out.list # <<>>
    /\ manifest' = qbdumps(out.list)
    /\ UNCHANGED <<clockfile, tally, cache, remote, pulled, nodes, orders, rules, request, out, cmd, given, ledger, pc, exc, qs,
                   targets, idle, busy, k, stack, io, seen, overdue, cyc0, quiet0>>

NextQubits == cli_qubits \/ pack

SpecQubits == InitQubits /\ [][NextQubits]_vars

(***************************************************************************)
(* spawn: the root targets of the manifest dealt out to the slots of the   *)
(* nodes, and one order per node handed to pssh.                           *)
(***************************************************************************)
Addrs == {"n1", "n2"}

\* the largest max-concurrency of a node
MaxSlots == 2
\* the longest conf['nodes']
MaxNodes == 2

NodeLists ==
    UNION {[1..n -> [addr : Addrs, nmax : 0..MaxSlots]] : n \in 1..MaxNodes}

\* one rule that matches every name: qbparse finds a recipe for each line
AnyRules == <<Rule(AllNames, DepsExpr(<<>>))>>

\* a manifest line of a root target, or of a target with one dependency
Line(t, root) ==
    [name |-> 1, target |-> t,
     deps |-> IF root THEN <<>> ELSE IF t = "a" THEN <<"b">> ELSE <<"a">>]

Manifests ==
    UNION {{[n \in DOMAIN o |-> Line(o[n], f[o[n]])] : o \in Orders(S), f \in [S -> BOOLEAN]} :
              S \in SUBSET Names}

RECURSIVE Repeat(_, _)
Repeat(x, n) == IF n = 0 THEN <<>> ELSE <<x>> \o Repeat(x, n - 1)

\* ps = sum(([(addr, [])] * nmax ...), []): the nmax slots of node number n
\* are one tuple repeated, so they hold one and the same list, named n here
Slots(ns) ==
    Concat([n \in DOMAIN ns |-> Repeat([addr |-> ns[n].addr, list |-> n], ns[n].nmax)])

\* q for q in qs if not qbdeps(q), as targets
Roots(list) ==
    LET rs == SelectSeq(list, LAMBDA q : qbdeps(q) = <<>>)
    IN  [n \in DOMAIN rs |-> qbtarget(rs[n])]

\* ps[n % len(ps)][1].append(qbtarget(qubit)), for root number n on (from 0)
RECURSIVE Deal(_, _, _, _)
Deal(roots, n, ps, lists) ==
    IF n >= Len(roots) THEN lists
    ELSE LET l == ps[(n % Len(ps)) + 1].list
         IN  Deal(roots, n + 1, ps, [lists EXCEPT ![l] = Append(@, roots[n + 1])])

\* groupby(ps, key = address): runs of neighbouring slots of one address
RECURSIVE groupby(_)
groupby(ps) ==
    IF ps = <<>> THEN <<>>
    ELSE LET rest == groupby(Tail(ps))
         IN  IF rest # <<>> /\ Head(rest)[1].addr = Head(ps).addr
             THEN <<<<Head(ps)>> \o Head(rest)>> \o Tail(rest)
             ELSE <<<<Head(ps)>>>> \o rest

\* one order per group: plant(ts) for every slot of the group with ts
Order(group, lists) ==
    LET full == SelectSeq(group, LAMBDA slot : lists[slot.list] # <<>>)
    IN  [addr |-> group[1].addr,
         seeds |-> [n \in DOMAIN full |-> lists[full[n].list]]]

spawn_(lines, ns, rs) ==
    LET qs_ == qbread(lines, rs)
        ps == Slots(ns)
        roots == Roots([n \in DOMAIN qs_ |-> qs_[n].qubit])
        empty == [n \in DOMAIN ns |-> <<>>]
    IN  IF \E n \in DOMAIN qs_ : ~qs_[n].ok
        THEN [err |-> "ValueError", sent |-> <<>>]
        ELSE IF roots # <<>> /\ ps = <<>>
        THEN [err |-> "ZeroDivisionError", sent |-> <<>>]
        ELSE LET lists == IF ps = <<>> THEN empty ELSE Deal(roots, 0, ps, empty)
                 groups == groupby(ps)
             IN  [err |-> NoError,
                  sent |-> [g \in DOMAIN groups |-> Order(groups[g], lists)]]

InitSpawn ==
    /\ rules = AnyRules
    /\ nodes \in NodeLists
    /\ manifest \in Manifests
    /\ orders = NotSpawned
    /\ cache = NoCache
    /\ remote = NoFiles
    /\ pulled = NoCache
    /\ clockfile = <<>>
    /\ tally = NotCounted
    /\ request = <<>>
    /\ out = Pending
    /\ cmd = Off
    /\ given = NoTargets
    /\ ledger = <<>>
    /\ pc = [w \in Workers |-> "off"]
    /\ exc = [w \in Workers |-> NoError]
    /\ qs = [w \in Workers |-> <<>>]
    /\ targets = [w \in Workers |-> {}]
    /\ idle = [w \in Workers |-> 0]
    /\ busy = [w \in Workers |-> FALSE]
    /\ k = [w \in Workers |-> 0]
    /\ stack = [w \in Workers |-> <<>>]
    /\ io = [w \in Workers |-> <<0, 0>>]
    /\ seen = [w \in Workers |-> 0]
    /\ overdue = FALSE
    /\ cyc0 = [w \in Workers |-> 0]
    /\ quiet0 = [w \in Workers |-> FALSE]

\* qb spawn JOBID
spawn ==
    /\ orders = NotSpawned
    /\ orders' = spawn_(manifest, nodes, rules)
    /\ ledger' = subspace(ledger)
    /\ UNCHANGED <<clockfile, tally, cache, remote, pulled, nodes, rules, request, out, manifest, cmd, given, pc, exc, qs,
                   targets, idle, busy, k, stack, io, seen, overdue, cyc0, quiet0>>

NextSpawn == spawn

SpecSpawn == InitSpawn /\ [][NextSpawn]_vars

(***************************************************************************)
(* The jobspace at an s3:// url: every host punches and counts under its   *)
(* own local path, and sync runs `aws s3 sync <local path> <url>'.         *)
(***************************************************************************)
\* the longest worker file
MaxFile == 2

\* aws s3 sync SRC DST: every file of SRC that differs goes to DST, nothing
\* is deleted from DST and nothing comes back to SRC
aws_s3_sync(src, dst) ==
    [w \in DOMAIN dst |-> IF File(src, w) # <<>> THEN File(src, w) ELSE dst[w]]

\* S3JobSpace.sync: sh(('aws', 's3', 'sync', self.path, self.url)).wait()
S3JobSpace_sync(local, url) == [path |-> local, url |-> aws_s3_sync(local, url)]

HostOrder == <<"A", "B">>

\* all the files under the url, as one ledger
Listing(url) == Concat([n \in DOMAIN HostOrder |-> url[HostOrder[n]]])

InitS3 ==
    /\ cache = NoCache
    /\ remote = NoFiles
    /\ pulled = NoCache
    /\ clockfile = <<>>
    /\ tally = NotCounted
    /\ rules = AnyRules
    /\ nodes = DefaultNodes
    /\ orders = NotSpawned
    /\ manifest = <<>>
    /\ request = <<>>
    /\ out = Pending
    /\ cmd = Off
    /\ given = NoTargets
    /\ ledger = <<>>
    /\ pc = [w \in Workers |-> "off"]
    /\ exc = [w \in Workers |-> NoError]
    /\ qs = [w \in Workers |-> <<>>]
    /\ targets = [w \in Workers |-> {}]
    /\ idle = [w \in Workers |-> 0]
    /\ busy = [w \in Workers |-> FALSE]
    /\ k = [w \in Workers |-> 0]
    /\ stack = [w \in Workers |-> <<>>]
    /\ io = [w \in Workers |-> <<0, 0>>]
    /\ seen = [w \in Workers |-> 0]
    /\ overdue = FALSE
    /\ cyc0 = [w \in Workers |-> 0]
    /\ quiet0 = [w \in Workers |-> FALSE]

Rest ==
    <<nodes, orders, rules, request, out, manifest, cmd, given, ledger, pc, exc, qs,
      targets, idle, busy, k, stack, io, seen, overdue, cyc0, quiet0>>

\* job.punch_clock(qubit, inout) by the worker of host h
S3Punch(h) ==
    /\ Len(cache[h]) < MaxFile
    /\ \E t \in {"a", "b"} : \E inout \in {In, Out} :
          cache' = [cache EXCEPT ![h] = punch_clock(@, h, [target |-> t], inout)]
    /\ UNCHANGED <<remote, pulled, clockfile, tally, Rest>>

\* job.sync() on host h
S3Sync(h) ==
    /\ cache' = [cache EXCEPT ![h] = S3JobSpace_sync(cache[h], remote).path]
    /\ remote' = S3JobSpace_sync(cache[h], remote).url
    /\ pulled' = [pulled EXCEPT ![h] = Listing(remote')]
    /\ UNCHANGED <<clockfile, tally, Rest>>

NextS3 ==
    \/ \E h \in Hosts : S3Punch(h)
    \/ \E h \in Hosts : S3Sync(h)

SpecS3 == InitS3 /\ [][NextS3]_vars

\* the counts of host h: punch_count over its local path
Counts(h, t) == punch_count(cache[h], [target |-> t])

\* every host has run sync since the last change under the url
Settled == \A h \in Hosts : pulled[h] = Listing(remote) /\ File(cache[h], h) = remote[h]

\* C15: sync is bidirectional: after a host's sync its counts include every
\* punch that was under the url at that sync, and hosts that have all synced
\* since the last punch count the same for every target.
C15_RemoteConvergence ==
    /\ \A h \in Hosts : \A t \in Names :
          /\ Counts(h, t)[1] >= InCount(pulled[h], t)
          /\ Counts(h, t)[2] >= OutCount(pulled[h], t)
    /\ Settled => \A t \in Names : Counts("A", t) = Counts("B", t)

(***************************************************************************)
(* The text of a worker file: punch_clock writes time, target and '%d' of  *)
(* inout joined by tabs; punch_count splits every line at the tabs.  A     *)
(* writer caught in the middle of a line leaves its first fields.          *)
(***************************************************************************)
\* the whole lines of the file read
MaxLines == 2

\* '%s\t%s\t%d\n' % (time.time(), qbtarget(qubit), inout), split at the tabs
Written(p) == <<"time", p.target, IF p.inout = In THEN "1" ELSE "0">>

WholeLines == {Written(Punch(W0, t, d)) : t \in {"a", "b"}, d \in {In, Out}}

\* a line cut after its first or its second field
TornLines == {SubSeq(l, 1, n) : l \in WholeLines, n \in 1..2}

ClockFiles ==
    {whole \o torn : whole \in UNION {[1..n -> WholeLines] : n \in 0..MaxLines},
                     torn \in {<<>>} \cup {<<l>> : l \in TornLines}}

\* punch_count over the lines of one file, line by line from line n on:
\* t, target_, inout = line.strip().split('\t') needs exactly three fields
RECURSIVE countFrom(_, _, _, _)
countFrom(lines, n, target, acc) ==
    IF n > Len(lines) THEN acc
    ELSE IF Len(lines[n]) # 3 THEN [acc EXCEPT !.err = "ValueError"]
    ELSE IF lines[n][2] # target THEN countFrom(lines, n + 1, target, acc)
    ELSE IF lines[n][3] = "1"
         THEN countFrom(lines, n + 1, target, [acc EXCEPT !.i = @ + 1])
         ELSE countFrom(lines, n + 1, target, [acc EXCEPT !.o = @ + 1])

punch_count_text(lines, qubit) ==
    countFrom(lines, 1, qbtarget(qubit), [err |-> NoError, i |-> 0, o |-> 0])

InitCount ==
    /\ clockfile \in ClockFiles
    /\ tally = NotCounted
    /\ cache = NoCache
    /\ remote = NoFiles
    /\ pulled = NoCache
    /\ rules = AnyRules
    /\ nodes = DefaultNodes
    /\ orders = NotSpawned
    /\ manifest = <<>>
    /\ request = <<>>
    /\ out = Pending
    /\ cmd = Off
    /\ given = NoTargets
    /\ ledger = <<>>
    /\ pc = [w \in Workers |-> "off"]
    /\ exc = [w \in Workers |-> NoError]
    /\ qs = [w \in Workers |-> <<>>]
    /\ targets = [w \in Workers |-> {}]
    /\ idle = [w \in Workers |-> 0]
    /\ busy = [w \in Workers |-> FALSE]
    /\ k = [w \in Workers |-> 0]
    /\ stack = [w \in Workers |-> <<>>]
    /\ io = [w \in Workers |-> <<0, 0>>]
    /\ seen = [w \in Workers |-> 0]
    /\ overdue = FALSE
    /\ cyc0 = [w \in Workers |-> 0]
    /\ quiet0 = [w \in Workers |-> FALSE]

\* job.punch_count(qubit) of a target a
count ==
    /\ tally = NotCounted
    /\ tally' = punch_count_text(clockfile, [target |-> "a"])
    /\ UNCHANGED <<clockfile, cache, remote, pulled, Rest>>

NextCount == count

SpecCount == InitCount /\ [][NextCount]_vars

\* the lines of the file with three fields
WellFormed == SelectSeq(clockfile, LAMBDA l : Len(l) = 3)

\* C16: when the file holds a malformed line, punch_count skips it and
\* returns the in and out counts of the well-formed lines instead of failing.
C16_TornReadsTolerated ==
    tally # NotCounted =>
        /\ tally.err = NoError
        /\ tally.i = Len(SelectSeq(WellFormed, LAMBDA l : l[2] = "a" /\ l[3] = "1"))
        /\ tally.o = Len(SelectSeq(WellFormed, LAMBDA l : l[2] = "a" /\ l[3] # "1"))

(***************************************************************************)
(* Properties of spawn.                                                    *)
(***************************************************************************)
Spawned == orders # NotSpawned /\ orders.err = NoError

\* the seed invocations dispatched, in order: address and TARGETS
Seeds ==
    Concat([g \in DOMAIN orders.sent |->
               [n \in DOMAIN orders.sent[g].seeds |->
                   [addr |-> orders.sent[g].addr, targets |-> orders.sent[g].seeds[n]]]])

ManifestRoots == Roots([n \in DOMAIN manifest |-> manifest[n]])

\* one bucket per unit of max-concurrency, in the order of conf['nodes']
Buckets == Concat([n \in DOMAIN nodes |-> Repeat(nodes[n].addr, nodes[n].nmax)])

\* the root targets number i with i mod len(slots) = j - 1, in order
Share(j) ==
    LET idx == SelectSeq([i \in DOMAIN ManifestRoots |-> i],
                         LAMBDA i : (i - 1) % Len(Buckets) = j - 1)
    IN  [n \in DOMAIN idx |-> ManifestRoots[idx[n]]]

\* C14: the i-th root target goes to slot i mod len(slots), each unit of
\* max-concurrency being a separate bucket; every root target is in the
\* target list of exactly one dispatched seed, and a bucket that received
\* no target produces no seed.
C14_SpawnPartition ==
    Spawned =>
        /\ \A n \in DOMAIN ManifestRoots :
              Cardinality({m \in DOMAIN Seeds : InSeq(ManifestRoots[n], Seeds[m].targets)}) = 1
        /\ LET full == SelectSeq([j \in DOMAIN Buckets |-> j], LAMBDA j : Share(j) # <<>>)
           IN  Seeds = [n \in DOMAIN full |->
                           [addr |-> Buckets[full[n]], targets |-> Share(full[n])]]

(***************************************************************************)
(* Properties of the resolver.                                             *)
(***************************************************************************)
Present(list) == {qbtarget(list[n]) : n \in DOMAIN list}

\* x -> y: an entry of x lists y, and y has an entry
Edges(list) ==
    {e \in Present(list) \X Present(list) :
        \E n \in DOMAIN list : qbtarget(list[n]) = e[1] /\ InSeq(e[2], qbdeps(list[n]))}

\* the pairs joined by a path of at most 2^n edges
Join(R) == {p \in {<<e[1], f[2]>> : e \in R, f \in R} :
               \E e \in R : e[1] = p[1] /\ <<e[2], p[2]>> \in R}

RECURSIVE Paths(_, _)
Paths(R, n) == IF n = 0 THEN R ELSE Paths(R \cup Join(R), n - 1)

HasCycle(list) ==
    \E x \in Present(list) : <<x, x>> \in Paths(Edges(list), Cardinality(Present(list)))

Resolved == out # Pending /\ out.err = NoError

\* C10: the qubit sequence returned by the resolver contains no dependency
\* cycle among the targets present in it, for every rule table and every
\* sequence of requested targets.
C10_Acyclic == Resolved => ~HasCycle(out.list)

\* the dependencies the rule table gives a target
DepsOf(t, rs) == IF match(t, rs).ok THEN Range(match(t, rs).deps) ELSE {}

\* the targets S and everything they depend on, directly or not
RECURSIVE Reach(_, _, _)
Reach(S, rs, n) ==
    IF n = 0 THEN S ELSE Reach(S \cup UNION {DepsOf(t, rs) : t \in S}, rs, n - 1)

NoCycles(rs) ==
    \A t \in AllNames :
        t \notin Reach(DepsOf(t, rs), rs, Cardinality(AllNames))

Requested == Range(OrDefault(request))

ChainTable == ChainRules \o <<Rule({Default}, DepsExpr(<<"c">>))>>

\* C11: in the resolver output every dependency of every qubit is present
\* as a target unless the cycle policy removed it; for a rule table with no
\* cycles the output is exactly the requested targets and their transitive
\* dependencies (chain a <- b <- c, targets [c]: keys {a, b, c}).
C11_Closure ==
    Resolved =>
        /\ \A n \in DOMAIN out.list : \A j \in DOMAIN qbdeps(out.list[n]) :
              \/ qbdeps(out.list[n])[j] \in Present(out.list)
              \/ qbdeps(out.list[n])[j] \in out.dropped
        /\ NoCycles(rules) =>
              Present(out.list) = Reach(Requested, rules, Cardinality(AllNames))
        /\ rules = ChainTable /\ request = <<"c">> =>
              Present(out.list) = {"a", "b", "c"}

C11_ChainResolved ==
    /\ Resolved
    /\ rules = ChainTable
    /\ request = <<"c">>
    /\ Present(out.list) = {"a", "b", "c"}

\* rules ^a$ -> [b], ^b$ -> [a] and TARGETS a
CycleScenario ==
    /\ out # Pending
    /\ match("a", rules).ok /\ match("a", rules).deps = <<"b">>
    /\ match("b", rules).ok /\ match("b", rules).deps = <<"a">>
    /\ request = <<"a">>

\* C12 as stated: with rules a -> [b], b -> [a] and targets [a] the resolver
\* emits a cycle warning and the returned map does not contain a.
C12_CycleScenario ==
    CycleScenario => out.warned /\ "a" \notin Present(out.list)

\* C12 amended: the resolver emits a cycle warning and returns a map holding
\* a, with its dependency b, and not b: the target deleted is the one whose
\* dependency is an ancestor (b), not the requested ancestor (a).
C12_CycleKeepsAncestor ==
    CycleScenario =>
        /\ out.err = NoError
        /\ out.warned
        /\ Present(out.list) = {"a"}
        /\ \A n \in DOMAIN out.list : qbdeps(out.list[n]) = <<"b">>

C12_CycleWarned ==
    /\ CycleScenario
    /\ rules = CycleRules \o <<Rule({Default}, DepsExpr(<<"c">>))>>
    /\ out.warned
    /\ Len(out.list) = 1

\* no target is on two entries of the list
Once(list) ==
    \A n, m \in DOMAIN list : qbtarget(list[n]) = qbtarget(list[m]) => n = m

\* C18: when a target is reachable from more than one requested target, or
\* is requested twice, the resolver output contains it once; the output and
\* the manifest written by pack never list a target on two entries.
C18_DuplicatesCoalesce ==
    /\ Resolved => Once(out.list)
    /\ \A n, m \in DOMAIN manifest : manifest[n].target = manifest[m].target => n = m

\* C19: once a dependency of the current target is found among the
\* ancestors, none of the current target's remaining dependencies is
\* expanded: every target of the output was requested or was resolved as a
\* dependency of a target that was in the map at that moment.
C19_CycleStopsBranch ==
    Resolved => Present(out.list) \subseteq Requested \cup out.grown

(***************************************************************************)
(* Properties of the execution loop.                                       *)
(***************************************************************************)
\* the qubit the for loop of worker w is at
Current(w) == qs[w][k[w]]

\* the ledger as it was when it held n punches
Upto(n) == SubSeq(ledger, 1, n)

DepsDone(led, qubit) ==
    \A n \in DOMAIN qbdeps(qubit) : OutCount(led, qbdeps(qubit)[n]) >= 1

Everyone == Workers \cup {W0}

\* make(["c"]) over the linear chain, one worker, empty ledger
ChainAlone ==
    /\ rules = ChainRules
    /\ request = <<"c">>
    /\ Active = {"W1"}
    /\ File(ledger, W0) = <<>>

ChainLedger ==
    <<Punch("W1", "a", In), Punch("W1", "a", Out),
      Punch("W1", "b", In), Punch("W1", "b", Out),
      Punch("W1", "c", In), Punch("W1", "c", Out)>>

ChainExact == ChainAlone /\ pc["W1"] = "done" => ledger = ChainLedger

\* C1 as stated: a worker appends an `in' punch for a target only when the
\* target has out_count = 0 and every dependency has out_count >= 1 in the
\* ledger; and the chain a <- b <- c made by one worker on an empty ledger
\* gives exactly a.in, a.out, b.in, b.out, c.in, c.out.
C1_DependencyOrdering ==
    /\ \A w \in Workers :
          pc[w] = "punch" =>
            /\ OutCount(ledger, qbtarget(Current(w))) = 0
            /\ DepsDone(ledger, Current(w))
    /\ ChainExact

\* C1 amended: a worker appends an `in' punch for a target only when every
\* dependency has out_count >= 1 in the ledger and the out_count the worker
\* counted for the target in that pass was 0 (another worker may have punched
\* out since); the chain made by one worker gives exactly the six punches.
C1_OrderingAsCounted ==
    /\ \A w \in Workers :
          pc[w] = "punch" =>
            /\ io[w][2] = 0
            /\ OutCount(Upto(seen[w]), qbtarget(Current(w))) = 0
            /\ DepsDone(ledger, Current(w))
    /\ ChainExact

C1_ChainMade == ChainAlone /\ pc["W1"] = "done" /\ ledger = ChainLedger

\* every dependency named in worker w's qubits is a target of them
Closed(w) ==
    \A n \in DOMAIN qs[w] : \A j \in DOMAIN qbdeps(qs[w][n]) :
        qbdeps(qs[w][n])[j] \in Present(qs[w])

RecipeFailed == \E v \in Workers : exc[v] = "RecipeError"

\* C2: for a qubit map whose dependencies are all present in the map, when
\* every started recipe returns and punches out, every worker running the
\* loop eventually reaches an empty targets set and terminates.
C2_Termination ==
    \A w \in Workers :
        (pc[w] = "loop" /\ Closed(w)) ~> (pc[w] = "done" \/ RecipeFailed)

\* every target reachable from the requested ones matches a rule
AllMatch ==
    \A t \in Reach(Requested, rules, Cardinality(AllNames)) : match(t, rules).ok

\* C13: when every reachable target matches a rule, a dependency cycle never
\* makes the resolver fail, and make over the resulting map raises no error
\* for a dependency that is missing from the map.
C13_CyclesNonFatal ==
    \A w \in Workers :
        cmd[w] = "make" /\ AllMatch => exc[w] \notin {"ValueError", "KeyError"}

\* C3: a target is outside a worker's targets set only when its out_count
\* is >= 1, the loop returns only with targets empty, so when make or seed
\* has returned every target of its qubit sequence (for seed: every target
\* of the manifest) has an `out' punch.
C3_CompletionOnExit ==
    \A w \in Workers :
        /\ pc[w] \notin {"off", "enter"} =>
              \A t \in Present(qs[w]) \ targets[w] : punch_count(ledger, [target |-> t])[2] >= 1
        /\ pc[w] = "done" =>
              /\ targets[w] = {}
              /\ \A t \in Present(qs[w]) : punch_count(ledger, [target |-> t])[2] >= 1
              /\ cmd[w] = "seed" =>
                    \A n \in DOMAIN manifest :
                        punch_count(ledger, [target |-> manifest[n].target])[2] >= 1

C3_SeedReturned ==
    \E w \in Workers :
        /\ cmd[w] = "seed"
        /\ pc[w] = "done"
        /\ \E t \in Present(qs[w]) : ~InSeq(t, given[w])

\* the workers that punched in for target t
Executors(t) == {w \in Everyone : \E n \in DOMAIN ledger : ledger[n] = Punch(w, t, In)}

\* C4 as stated: while no worker has reached idle > stalled, no target's
\* recipe is executed by two different workers.
C4_NoDuplicateExecution ==
    ~overdue => \A t \in AllNames : Cardinality(Executors(t)) <= 1

\* C4 amended: a worker whose idle is <= stalled appends an `in' punch for a
\* target only if the ledger held no `in' punch for it when the worker
\* counted it; two workers execute the same target only when each counted
\* before the other punched in (or after idle > stalled).
C4_ClaimAsCounted ==
    \A w \in Workers :
        pc[w] = "punch" /\ idle[w] <= Stalled =>
            /\ io[w][1] = 0
            /\ \A n \in DOMAIN ledger :
                  ledger[n].target = qbtarget(Current(w)) /\ ledger[n].inout = In
                      => n > seen[w]

C4_Collision ==
    /\ ~overdue
    /\ \E t \in AllNames : {"W1", "W2"} \subseteq Executors(t)

\* W0 punched in for t and never out
Abandoned(t) == InCount(File(ledger, W0), t) > OutCount(File(ledger, W0), t)

\* C5: with t.in left by W0 and no t.out, a lone worker W1 does not execute
\* t while idle <= stalled, executes it after exactly stalled + 1 idle
\* passes, writing its own t.in then t.out; t is then complete.
C5_StallRecovery ==
    \A w \in Workers : \A t \in AllNames :
        Active = {w} /\ Abandoned(t) =>
            /\ pc[w] \in {"punch", "recipe"} /\ qbtarget(Current(w)) = t
                  => idle[w] = Stalled + 1
            /\ pc[w] = "done" /\ t \in Present(qs[w]) =>
                  /\ \E n \in DOMAIN ledger :
                        /\ n < Len(ledger)
                        /\ ledger[n] = Punch(w, t, In)
                        /\ \E j \in DOMAIN ledger : j > n /\ ledger[j] = Punch(w, t, Out)
                  /\ OutCount(ledger, t) >= 1

C5_Recovered ==
    \E w \in Workers : \E t \in AllNames :
        /\ Active = {w}
        /\ Abandoned(t)
        /\ pc[w] = "done"
        /\ InCount(File(ledger, w), t) = 1
        /\ OutCount(File(ledger, w), t) = 1

\* target t of worker w was ready when w's last pass began
WasReady(w, t) ==
    /\ OutCount(Upto(cyc0[w]), t) = 0
    /\ DepsDone(Upto(cyc0[w]), dict(qs[w])[t])

\* C6 as stated: when a pending target is ready and no worker is executing
\* a recipe, some worker starts it within the worker's next pass.
C6_Progress ==
    \A w \in Workers : \A t \in targets[w] :
        pc[w] = "loop" /\ quiet0[w] /\ WasReady(w, t)
            => InCount(ledger, t) > InCount(Upto(cyc0[w]), t)

\* C6 amended: when a pending target is ready and has no `in' punch, and no
\* worker is executing a recipe, then by the end of the next complete pass
\* of a worker that has it pending some worker has punched in for it.
C6_ProgressUnclaimed ==
    \A w \in Workers : \A t \in targets[w] :
        pc[w] = "loop" /\ quiet0[w] /\ WasReady(w, t) /\ InCount(Upto(cyc0[w]), t) = 0
            => InCount(ledger, t) >= 1

C6_Started ==
    \E w \in Workers : \E t \in targets[w] :
        /\ pc[w] = "loop"
        /\ quiet0[w]
        /\ WasReady(w, t)
        /\ InCount(Upto(cyc0[w]), t) = 0
        /\ InCount(ledger, t) >= 1

\* C7: punches are only appended: once count returns out_count >= 1 for a
\* target it does so in every later state.
C7_MonotoneCompletion ==
    [][/\ SubSeq(ledger', 1, Len(ledger)) = ledger
       /\ Len(ledger') >= Len(ledger)
       /\ \A t \in AllNames :
             punch_count(ledger, [target |-> t])[2] >= 1
                 => punch_count(ledger', [target |-> t])[2] >= 1]_vars

C7_StillComplete ==
    \E n \in DOMAIN ledger :
        /\ ledger[n].inout = Out
        /\ ledger[n].worker \in Workers
        /\ \E j \in DOMAIN ledger :
              j > n /\ ledger[j].worker = ledger[n].worker /\ ledger[j].inout = In

\* the ledger W0 left has an `out' punch for every target of w's qubits
UpToDate(w) ==
    /\ pc[w] \notin {"off", "enter"}
    /\ exc[w] = NoError
    /\ \A t \in Present(qs[w]) : OutCount(File(ledger, W0), t) >= 1

\* C8: make(T) under a job whose ledger has out_count >= 1 for every target
\* of the resolved map invokes no recipe, appends no punch, and terminates
\* after its first pass.
C8_Idempotence ==
    \A w \in Workers :
        UpToDate(w) =>
            /\ File(ledger, w) = <<>>
            /\ pc[w] \notin {"punch", "recipe", "raised"}
            /\ pc[w] = "done" => idle[w] = 1

C8_Remade == \E w \in Workers : UpToDate(w) /\ pc[w] = "done" /\ qs[w] # <<>>

\* C9: whenever a worker has appended an `in' punch for a target and the
\* recipe fails, the worker still appends the matching `out' punch and
\* goes on with the loop: outside a recipe every `in' punch of a worker has
\* its `out' punch, and no recipe failure ends a worker.
C9_FailurePunchesOut ==
    \A w \in Workers :
        pc[w] # "recipe" =>
            /\ exc[w] # "RecipeError"
            /\ \A t \in AllNames :
                  InCount(File(ledger, w), t) = OutCount(File(ledger, w), t)

\* the workers that ran the loop on the job
Ran == {w \in Everyone : (w \in Workers /\ qs[w] # <<>>) \/ File(ledger, w) # <<>>}

\* C17: within one run of the loop a worker executes a target at most once,
\* also when the qubit sequence lists the target twice and also after
\* idle > stalled; so for every target the number of `in' punches is at most
\* the number of workers that ran the loop on the job.
C17_BoundedCollisions ==
    /\ \A w \in Everyone : \A t \in AllNames : InCount(File(ledger, w), t) <= 1
    /\ \A t \in AllNames : InCount(ledger, t) <= Cardinality(Ran)

\* a worker returned from a loop over a sequence that lists t twice,
\* having executed t
C17_TwiceListed ==
    \E w \in Workers : \E t \in AllNames :
        /\ pc[w] = "done"
        /\ \E n, m \in DOMAIN qs[w] :
              n # m /\ qbtarget(qs[w][n]) = t /\ qbtarget(qs[w][m]) = t
        /\ InCount(File(ledger, w), t) = 1

\* a file of (t.in, t.out) pairs, with at most one t.in after them
Paired(f) ==
    \A n \in DOMAIN f :
        IF n % 2 = 1 THEN f[n].inout = In
        ELSE f[n].inout = Out /\ f[n].target = f[n - 1].target

Unmatched(w) == Len(File(ledger, w)) % 2 = 1

\* worker w is inside the recipe (of target t)
Inside(w) == w \in Workers /\ pc[w] = "recipe"

InsideOf(t) == {w \in Workers : Inside(w) /\ qbtarget(Current(w)) = t}

\* the workers that ended inside the recipe of t: killed there (W0), or
\* ended by the exception of the recipe
DiedIn(t) ==
    {w \in Workers : pc[w] = "raised" /\ exc[w] = "RecipeError" /\ qbtarget(Current(w)) = t}
    \cup {w \in {W0} : Unmatched(w) /\ File(ledger, w)[Len(File(ledger, w))].target = t}

Died(w) == \E t \in AllNames : w \in DiedIn(t)

CountsBounded ==
    \A t \in AllNames :
        /\ InCount(ledger, t) >= OutCount(ledger, t)
        /\ InCount(ledger, t) - OutCount(ledger, t)
              <= Cardinality(InsideOf(t)) + Cardinality(DiedIn(t))

\* every punch added is added by a running worker to its own file
OwnFile ==
    ledger' # ledger =>
        \E w \in Workers : \E d \in {In, Out} :
            /\ pc[w] \in {"punch", "recipe"}
            /\ ledger' = Append(ledger, Punch(w, qbtarget(Current(w)), d))

\* C20 as stated: each worker's file is a sequence of (t.in, t.out) pairs
\* followed by at most one unmatched t.in, there only while that worker is
\* inside the recipe; in_count >= out_count, and in_count - out_count is at
\* most the workers inside the target's recipe plus those that died in it.
C20_LedgerShape ==
    /\ \A w \in Everyone :
          /\ Paired(File(ledger, w))
          /\ Unmatched(w) => Inside(w)
    /\ CountsBounded

\* C20 amended: each worker's file is a sequence of (t.in, t.out) pairs
\* followed by at most one unmatched t.in, there while the worker is inside
\* the recipe and for good once it died inside it; a worker appends only to
\* its own file; in_count >= out_count, and in_count - out_count is at most
\* the workers inside the target's recipe plus those that died in it.
C20_LedgerShapeWithDead ==
    /\ [](\A w \in Everyone :
            /\ Paired(File(ledger, w))
            /\ Unmatched(w) => Inside(w) \/ Died(w))
    /\ []CountsBounded
    /\ [][OwnFile]_vars

\* a worker inside its second recipe while W0's file ends with an `in'
C20_InsideAfterPair ==
    \E w \in Workers :
        /\ Inside(w)
        /\ Len(File(ledger, w)) = 3
        /\ Unmatched(W0)

\* the worker processes run on; a recipe either returns or raises
FairSpec == Spec /\ \A w \in Workers : WF_vars(Step(w))

====
